---------------------------- MODULE Spec2Model ----------------------------
(***************************************************************************)
(* Bivenue Copilot: the rule-based core of the application.                *)
(*                                                                         *)
(*   engine/classifier.py  classify_domain(text)                           *)
(*   engine/generator.py   generate_recommendations(domain, text)          *)
(*                                                                         *)
(* A caller obtains a free-text problem statement, classify_domain maps it *)
(* to a domain label and generate_recommendations maps the label (and the  *)
(* text, which it ignores) to a block of recommendation text.              *)
(*                                                                         *)
(* Representation.                                                         *)
(*  - A Python str that is inspected character by character (the problem   *)
(*    statement) is a sequence of Unicode code points, so that lower() and *)
(*    the `in` operator are computed and not assumed.                      *)
(*  - A domain label is the Python string the code returns; the default    *)
(*    label GeneralFinance of the specification is the string              *)
(*    "General Finance" in the code.                                       *)
(*  - The text returned by generate_recommendations is the sequence of its *)
(*    lines (s.split("\n")), each line the sequence of its whitespace-     *)
(*    separated tokens (line.split()).  A character outside ASCII is       *)
(*    written U+XXXX inside a token.                                       *)
(***************************************************************************)
EXTENDS Naturals, Sequences, FiniteSets

VARIABLES
    text,     \* the problem statement the caller holds (code points)
    parts,    \* how many fragments the caller has typed into text
    pc,       \* position of the caller: "input", "classified", "recommended"
    domain,   \* the value classify_domain returned, NoLabel before the call
    arg,      \* the label passed to generate_recommendations, NoLabel before
    block,    \* the value generate_recommendations returned, NoBlock before
    api_key,  \* os.getenv("OPENAI_API_KEY") as engine/llm.py reads it
    reply,    \* what the completion service answered to the last request
    ai,       \* how the last call of generate_ai_analysis ended
    clients,  \* OpenAI clients built by engine/llm.py so far
    requests, \* chat completion requests sent so far
    client,        \* app.py: the module-level OpenAI client, or None
    tavily_client, \* app.py: the module-level Tavily client, or None
    searches,      \* app.py: Tavily searches sent so far
    runs,          \* app.py: how many times the script has run
    ui,            \* app.py: the inputs of the current run, where the
                   \* script stands and what it has shown
    session_state, \* app.py: st.session_state["research_query"], or None
    frames         \* the stack frame of each concurrent caller of the core

corevars == <<text, parts, pc, domain, arg, block>>
llmvars == <<api_key, reply, ai, clients, requests>>
appvars == <<client, tavily_client, searches, runs, ui, session_state>>

\* What the rule-based core never touches.
outside_core == <<llmvars, appvars, frames>>

vars == <<corevars, llmvars, appvars, frames>>

\* Number of runs of the app.py script in one session.
MaxRuns == 2

\* Number of fragments a caller may concatenate into one problem statement.
MaxParts == 2

\* Markers of "not called yet": no label and no block of the code equals them.
NoLabel == "(none)"
NoBlock == <<>>

-----------------------------------------------------------------------------
(* Strings as code points *)

\* ASCII 'A'..'Z' and 'a'..'z'.
IsAsciiUpper(c) == c >= 65 /\ c <= 90
IsAsciiLower(c) == c >= 97 /\ c <= 122

\* U+017F LATIN SMALL LETTER LONG S: a lowercase letter whose uppercase is 'S'.
LongS == <<383>>

\* The simple lowercase mappings of str.lower() (Unicode 14.0, the
\* database of the interpreter): <<lo, hi, step, to>> maps lo, lo + step,
\* ..., hi to `to`, `to` + step, ...  Every code point in no run, U+017F
\* included, has no simple lowercase mapping.
LowerRuns ==
    { <<65, 90, 1, 97>>, <<192, 214, 1, 224>>, <<216, 222, 1, 248>>,
      <<256, 302, 2, 257>>, <<306, 310, 2, 307>>, <<313, 327, 2, 314>>,
      <<330, 374, 2, 331>>, <<376, 376, 1, 255>>, <<377, 381, 2, 378>>,
      <<385, 385, 1, 595>>, <<386, 388, 2, 387>>, <<390, 390, 1, 596>>,
      <<391, 391, 1, 392>>, <<393, 394, 1, 598>>, <<395, 395, 1, 396>>,
      <<398, 398, 1, 477>>, <<399, 399, 1, 601>>, <<400, 400, 1, 603>>,
      <<401, 401, 1, 402>>, <<403, 403, 1, 608>>, <<404, 404, 1, 611>>,
      <<406, 406, 1, 617>>, <<407, 407, 1, 616>>, <<408, 408, 1, 409>>,
      <<412, 412, 1, 623>>, <<413, 413, 1, 626>>, <<415, 415, 1, 629>>,
      <<416, 420, 2, 417>>, <<422, 422, 1, 640>>, <<423, 423, 1, 424>>,
      <<425, 425, 1, 643>>, <<428, 428, 1, 429>>, <<430, 430, 1, 648>>,
      <<431, 431, 1, 432>>, <<433, 434, 1, 650>>, <<435, 437, 2, 436>>,
      <<439, 439, 1, 658>>, <<440, 440, 1, 441>>, <<444, 444, 1, 445>>,
      <<452, 452, 1, 454>>, <<453, 453, 1, 454>>, <<455, 455, 1, 457>>,
      <<456, 456, 1, 457>>, <<458, 458, 1, 460>>, <<459, 475, 2, 460>>,
      <<478, 494, 2, 479>>, <<497, 497, 1, 499>>, <<498, 500, 2, 499>>,
      <<502, 502, 1, 405>>, <<503, 503, 1, 447>>, <<504, 542, 2, 505>>,
      <<544, 544, 1, 414>>, <<546, 562, 2, 547>>, <<570, 570, 1, 11365>>,
      <<571, 571, 1, 572>>, <<573, 573, 1, 410>>, <<574, 574, 1, 11366>>,
      <<577, 577, 1, 578>>, <<579, 579, 1, 384>>, <<580, 580, 1, 649>>,
      <<581, 581, 1, 652>>, <<582, 590, 2, 583>>, <<880, 882, 2, 881>>,
      <<886, 886, 1, 887>>, <<895, 895, 1, 1011>>, <<902, 902, 1, 940>>,
      <<904, 906, 1, 941>>, <<908, 908, 1, 972>>, <<910, 911, 1, 973>>,
      <<913, 929, 1, 945>>, <<931, 939, 1, 963>>, <<975, 975, 1, 983>>,
      <<984, 1006, 2, 985>>, <<1012, 1012, 1, 952>>, <<1015, 1015, 1, 1016>>,
      <<1017, 1017, 1, 1010>>, <<1018, 1018, 1, 1019>>, <<1021, 1023, 1, 891>>,
      <<1024, 1039, 1, 1104>>, <<1040, 1071, 1, 1072>>, <<1120, 1152, 2, 1121>>,
      <<1162, 1214, 2, 1163>>, <<1216, 1216, 1, 1231>>, <<1217, 1229, 2, 1218>>,
      <<1232, 1326, 2, 1233>>, <<1329, 1366, 1, 1377>>, <<4256, 4293, 1, 11520>>,
      <<4295, 4295, 1, 11559>>, <<4301, 4301, 1, 11565>>, <<5024, 5103, 1, 43888>>,
      <<5104, 5109, 1, 5112>>, <<7312, 7354, 1, 4304>>, <<7357, 7359, 1, 4349>>,
      <<7680, 7828, 2, 7681>>, <<7838, 7838, 1, 223>>, <<7840, 7934, 2, 7841>>,
      <<7944, 7951, 1, 7936>>, <<7960, 7965, 1, 7952>>, <<7976, 7983, 1, 7968>>,
      <<7992, 7999, 1, 7984>>, <<8008, 8013, 1, 8000>>, <<8025, 8031, 2, 8017>>,
      <<8040, 8047, 1, 8032>>, <<8072, 8079, 1, 8064>>, <<8088, 8095, 1, 8080>>,
      <<8104, 8111, 1, 8096>>, <<8120, 8121, 1, 8112>>, <<8122, 8123, 1, 8048>>,
      <<8124, 8124, 1, 8115>>, <<8136, 8139, 1, 8050>>, <<8140, 8140, 1, 8131>>,
      <<8152, 8153, 1, 8144>>, <<8154, 8155, 1, 8054>>, <<8168, 8169, 1, 8160>>,
      <<8170, 8171, 1, 8058>>, <<8172, 8172, 1, 8165>>, <<8184, 8185, 1, 8056>>,
      <<8186, 8187, 1, 8060>>, <<8188, 8188, 1, 8179>>, <<8486, 8486, 1, 969>>,
      <<8490, 8490, 1, 107>>, <<8491, 8491, 1, 229>>, <<8498, 8498, 1, 8526>>,
      <<8544, 8559, 1, 8560>>, <<8579, 8579, 1, 8580>>, <<9398, 9423, 1, 9424>>,
      <<11264, 11311, 1, 11312>>, <<11360, 11360, 1, 11361>>, <<11362, 11362, 1, 619>>,
      <<11363, 11363, 1, 7549>>, <<11364, 11364, 1, 637>>, <<11367, 11371, 2, 11368>>,
      <<11373, 11373, 1, 593>>, <<11374, 11374, 1, 625>>, <<11375, 11375, 1, 592>>,
      <<11376, 11376, 1, 594>>, <<11378, 11378, 1, 11379>>, <<11381, 11381, 1, 11382>>,
      <<11390, 11391, 1, 575>>, <<11392, 11490, 2, 11393>>, <<11499, 11501, 2, 11500>>,
      <<11506, 11506, 1, 11507>>, <<42560, 42604, 2, 42561>>, <<42624, 42650, 2, 42625>>,
      <<42786, 42798, 2, 42787>>, <<42802, 42862, 2, 42803>>, <<42873, 42875, 2, 42874>>,
      <<42877, 42877, 1, 7545>>, <<42878, 42886, 2, 42879>>, <<42891, 42891, 1, 42892>>,
      <<42893, 42893, 1, 613>>, <<42896, 42898, 2, 42897>>, <<42902, 42920, 2, 42903>>,
      <<42922, 42922, 1, 614>>, <<42923, 42923, 1, 604>>, <<42924, 42924, 1, 609>>,
      <<42925, 42925, 1, 620>>, <<42926, 42926, 1, 618>>, <<42928, 42928, 1, 670>>,
      <<42929, 42929, 1, 647>>, <<42930, 42930, 1, 669>>, <<42931, 42931, 1, 43859>>,
      <<42932, 42946, 2, 42933>>, <<42948, 42948, 1, 42900>>, <<42949, 42949, 1, 642>>,
      <<42950, 42950, 1, 7566>>, <<42951, 42953, 2, 42952>>, <<42960, 42960, 1, 42961>>,
      <<42966, 42968, 2, 42967>>, <<42997, 42997, 1, 42998>>, <<65313, 65338, 1, 65345>>,
      <<66560, 66599, 1, 66600>>, <<66736, 66771, 1, 66776>>, <<66928, 66938, 1, 66967>>,
      <<66940, 66954, 1, 66979>>, <<66956, 66962, 1, 66995>>, <<66964, 66965, 1, 67003>>,
      <<68736, 68786, 1, 68800>>, <<71840, 71871, 1, 71872>>, <<93760, 93791, 1, 93792>>,
      <<125184, 125217, 1, 125218>> }

InRun(c, r) == c >= r[1] /\ c <= r[2] /\ (c - r[1]) % r[3] = 0

\* U+0130 LATIN CAPITAL LETTER I WITH DOT ABOVE: the one code point whose
\* lowercase is two code points, 'i' and U+0307.
DottedCapitalI == 304

\* U+03A3 GREEK CAPITAL LETTER SIGMA, lowered to U+03C3 or, at the end of a
\* word, to U+03C2.
CapitalSigma == 931
SmallSigma == 963
FinalSmallSigma == 962

\* chr(c).lower(): the code points c is lowered to, standing alone.
LowerChar(c) ==
    IF c < 128 THEN << IF IsAsciiUpper(c) THEN c + 32 ELSE c >>
    ELSE IF c = DottedCapitalI THEN <<105, 775>>
    ELSE IF \E r \in LowerRuns : InRun(c, r)
    THEN LET r == CHOOSE r \in LowerRuns : InRun(c, r) IN << r[4] + (c - r[1]) >>
    ELSE <<c>>

\* Code points str.lower() skips when it looks for the letters around a
\* capital sigma (Case_Ignorable), as ranges <<lo, hi>>.
CaseIgnorableRanges ==
    { <<39, 39>>, <<46, 46>>, <<58, 58>>, <<94, 94>>, <<96, 96>>,
      <<168, 168>>, <<173, 173>>, <<175, 175>>, <<180, 180>>, <<183, 184>>,
      <<688, 879>>, <<884, 885>>, <<890, 890>>, <<900, 901>>, <<903, 903>>,
      <<1155, 1161>>, <<1369, 1369>>, <<1375, 1375>>, <<1425, 1469>>, <<1471, 1471>>,
      <<1473, 1474>>, <<1476, 1477>>, <<1479, 1479>>, <<1524, 1524>>, <<1536, 1541>>,
      <<1552, 1562>>, <<1564, 1564>>, <<1600, 1600>>, <<1611, 1631>>, <<1648, 1648>>,
      <<1750, 1757>>, <<1759, 1768>>, <<1770, 1773>>, <<1807, 1807>>, <<1809, 1809>>,
      <<1840, 1866>>, <<1958, 1968>>, <<2027, 2037>>, <<2042, 2042>>, <<2045, 2045>>,
      <<2070, 2093>>, <<2137, 2139>>, <<2184, 2184>>, <<2192, 2193>>, <<2200, 2207>>,
      <<2249, 2306>>, <<2362, 2362>>, <<2364, 2364>>, <<2369, 2376>>, <<2381, 2381>>,
      <<2385, 2391>>, <<2402, 2403>>, <<2417, 2417>>, <<2433, 2433>>, <<2492, 2492>>,
      <<2497, 2500>>, <<2509, 2509>>, <<2530, 2531>>, <<2558, 2558>>, <<2561, 2562>>,
      <<2620, 2620>>, <<2625, 2626>>, <<2631, 2632>>, <<2635, 2637>>, <<2641, 2641>>,
      <<2672, 2673>>, <<2677, 2677>>, <<2689, 2690>>, <<2748, 2748>>, <<2753, 2757>>,
      <<2759, 2760>>, <<2765, 2765>>, <<2786, 2787>>, <<2810, 2815>>, <<2817, 2817>>,
      <<2876, 2876>>, <<2879, 2879>>, <<2881, 2884>>, <<2893, 2893>>, <<2901, 2902>>,
      <<2914, 2915>>, <<2946, 2946>>, <<3008, 3008>>, <<3021, 3021>>, <<3072, 3072>>,
      <<3076, 3076>>, <<3132, 3132>>, <<3134, 3136>>, <<3142, 3144>>, <<3146, 3149>>,
      <<3157, 3158>>, <<3170, 3171>>, <<3201, 3201>>, <<3260, 3260>>, <<3263, 3263>>,
      <<3270, 3270>>, <<3276, 3277>>, <<3298, 3299>>, <<3328, 3329>>, <<3387, 3388>>,
      <<3393, 3396>>, <<3405, 3405>>, <<3426, 3427>>, <<3457, 3457>>, <<3530, 3530>>,
      <<3538, 3540>>, <<3542, 3542>>, <<3633, 3633>>, <<3636, 3642>>, <<3654, 3662>>,
      <<3761, 3761>>, <<3764, 3772>>, <<3782, 3782>>, <<3784, 3789>>, <<3864, 3865>>,
      <<3893, 3893>>, <<3895, 3895>>, <<3897, 3897>>, <<3953, 3966>>, <<3968, 3972>>,
      <<3974, 3975>>, <<3981, 3991>>, <<3993, 4028>>, <<4038, 4038>>, <<4141, 4144>>,
      <<4146, 4151>>, <<4153, 4154>>, <<4157, 4158>>, <<4184, 4185>>, <<4190, 4192>>,
      <<4209, 4212>>, <<4226, 4226>>, <<4229, 4230>>, <<4237, 4237>>, <<4253, 4253>>,
      <<4348, 4348>>, <<4957, 4959>>, <<5906, 5908>>, <<5938, 5939>>, <<5970, 5971>>,
      <<6002, 6003>>, <<6068, 6069>>, <<6071, 6077>>, <<6086, 6086>>, <<6089, 6099>>,
      <<6103, 6103>>, <<6109, 6109>>, <<6155, 6159>>, <<6211, 6211>>, <<6277, 6278>>,
      <<6313, 6313>>, <<6432, 6434>>, <<6439, 6440>>, <<6450, 6450>>, <<6457, 6459>>,
      <<6679, 6680>>, <<6683, 6683>>, <<6742, 6742>>, <<6744, 6750>>, <<6752, 6752>>,
      <<6754, 6754>>, <<6757, 6764>>, <<6771, 6780>>, <<6783, 6783>>, <<6823, 6823>>,
      <<6832, 6862>>, <<6912, 6915>>, <<6964, 6964>>, <<6966, 6970>>, <<6972, 6972>>,
      <<6978, 6978>>, <<7019, 7027>>, <<7040, 7041>>, <<7074, 7077>>, <<7080, 7081>>,
      <<7083, 7085>>, <<7142, 7142>>, <<7144, 7145>>, <<7149, 7149>>, <<7151, 7153>>,
      <<7212, 7219>>, <<7222, 7223>>, <<7288, 7293>>, <<7376, 7378>>, <<7380, 7392>>,
      <<7394, 7400>>, <<7405, 7405>>, <<7412, 7412>>, <<7416, 7417>>, <<7468, 7530>>,
      <<7544, 7544>>, <<7579, 7679>>, <<8125, 8125>>, <<8127, 8129>>, <<8141, 8143>>,
      <<8157, 8159>>, <<8173, 8175>>, <<8189, 8190>>, <<8203, 8207>>, <<8216, 8217>>,
      <<8228, 8228>>, <<8231, 8231>>, <<8234, 8238>>, <<8288, 8292>>, <<8294, 8303>>,
      <<8305, 8305>>, <<8319, 8319>>, <<8336, 8348>>, <<8400, 8432>>, <<11388, 11389>>,
      <<11503, 11505>>, <<11631, 11631>>, <<11647, 11647>>, <<11744, 11775>>, <<11823, 11823>>,
      <<12293, 12293>>, <<12330, 12333>>, <<12337, 12341>>, <<12347, 12347>>, <<12441, 12446>>,
      <<12540, 12542>>, <<40981, 40981>>, <<42232, 42237>>, <<42508, 42508>>, <<42607, 42610>>,
      <<42612, 42621>>, <<42623, 42623>>, <<42652, 42655>>, <<42736, 42737>>, <<42752, 42785>>,
      <<42864, 42864>>, <<42888, 42890>>, <<42994, 42996>>, <<43000, 43001>>, <<43010, 43010>>,
      <<43014, 43014>>, <<43019, 43019>>, <<43045, 43046>>, <<43052, 43052>>, <<43204, 43205>>,
      <<43232, 43249>>, <<43263, 43263>>, <<43302, 43309>>, <<43335, 43345>>, <<43392, 43394>>,
      <<43443, 43443>>, <<43446, 43449>>, <<43452, 43453>>, <<43471, 43471>>, <<43493, 43494>>,
      <<43561, 43566>>, <<43569, 43570>>, <<43573, 43574>>, <<43587, 43587>>, <<43596, 43596>>,
      <<43632, 43632>>, <<43644, 43644>>, <<43696, 43696>>, <<43698, 43700>>, <<43703, 43704>>,
      <<43710, 43711>>, <<43713, 43713>>, <<43741, 43741>>, <<43756, 43757>>, <<43763, 43764>>,
      <<43766, 43766>>, <<43867, 43871>>, <<43881, 43883>>, <<44005, 44005>>, <<44008, 44008>>,
      <<44013, 44013>>, <<64286, 64286>>, <<64434, 64450>>, <<65024, 65039>>, <<65043, 65043>>,
      <<65056, 65071>>, <<65106, 65106>>, <<65109, 65109>>, <<65279, 65279>>, <<65287, 65287>>,
      <<65294, 65294>>, <<65306, 65306>>, <<65342, 65342>>, <<65344, 65344>>, <<65392, 65392>>,
      <<65438, 65439>>, <<65507, 65507>>, <<65529, 65531>>, <<66045, 66045>>, <<66272, 66272>>,
      <<66422, 66426>>, <<67456, 67461>>, <<67463, 67504>>, <<67506, 67514>>, <<68097, 68099>>,
      <<68101, 68102>>, <<68108, 68111>>, <<68152, 68154>>, <<68159, 68159>>, <<68325, 68326>>,
      <<68900, 68903>>, <<69291, 69292>>, <<69446, 69456>>, <<69506, 69509>>, <<69633, 69633>>,
      <<69688, 69702>>, <<69744, 69744>>, <<69747, 69748>>, <<69759, 69761>>, <<69811, 69814>>,
      <<69817, 69818>>, <<69821, 69821>>, <<69826, 69826>>, <<69837, 69837>>, <<69888, 69890>>,
      <<69927, 69931>>, <<69933, 69940>>, <<70003, 70003>>, <<70016, 70017>>, <<70070, 70078>>,
      <<70089, 70092>>, <<70095, 70095>>, <<70191, 70193>>, <<70196, 70196>>, <<70198, 70199>>,
      <<70206, 70206>>, <<70367, 70367>>, <<70371, 70378>>, <<70400, 70401>>, <<70459, 70460>>,
      <<70464, 70464>>, <<70502, 70508>>, <<70512, 70516>>, <<70712, 70719>>, <<70722, 70724>>,
      <<70726, 70726>>, <<70750, 70750>>, <<70835, 70840>>, <<70842, 70842>>, <<70847, 70848>>,
      <<70850, 70851>>, <<71090, 71093>>, <<71100, 71101>>, <<71103, 71104>>, <<71132, 71133>>,
      <<71219, 71226>>, <<71229, 71229>>, <<71231, 71232>>, <<71339, 71339>>, <<71341, 71341>>,
      <<71344, 71349>>, <<71351, 71351>>, <<71453, 71455>>, <<71458, 71461>>, <<71463, 71467>>,
      <<71727, 71735>>, <<71737, 71738>>, <<71995, 71996>>, <<71998, 71998>>, <<72003, 72003>>,
      <<72148, 72151>>, <<72154, 72155>>, <<72160, 72160>>, <<72193, 72202>>, <<72243, 72248>>,
      <<72251, 72254>>, <<72263, 72263>>, <<72273, 72278>>, <<72281, 72283>>, <<72330, 72342>>,
      <<72344, 72345>>, <<72752, 72758>>, <<72760, 72765>>, <<72767, 72767>>, <<72850, 72871>>,
      <<72874, 72880>>, <<72882, 72883>>, <<72885, 72886>>, <<73009, 73014>>, <<73018, 73018>>,
      <<73020, 73021>>, <<73023, 73029>>, <<73031, 73031>>, <<73104, 73105>>, <<73109, 73109>>,
      <<73111, 73111>>, <<73459, 73460>>, <<78896, 78904>>, <<92912, 92916>>, <<92976, 92982>>,
      <<92992, 92995>>, <<94031, 94031>>, <<94095, 94111>>, <<94176, 94177>>, <<94179, 94180>>,
      <<110576, 110579>>, <<110581, 110587>>, <<110589, 110590>>, <<113821, 113822>>, <<113824, 113827>>,
      <<118528, 118573>>, <<118576, 118598>>, <<119143, 119145>>, <<119155, 119170>>, <<119173, 119179>>,
      <<119210, 119213>>, <<119362, 119364>>, <<121344, 121398>>, <<121403, 121452>>, <<121461, 121461>>,
      <<121476, 121476>>, <<121499, 121503>>, <<121505, 121519>>, <<122880, 122886>>, <<122888, 122904>>,
      <<122907, 122913>>, <<122915, 122916>>, <<122918, 122922>>, <<123184, 123197>>, <<123566, 123566>>,
      <<123628, 123631>>, <<125136, 125142>>, <<125252, 125259>>, <<127995, 127999>>, <<917505, 917505>>,
      <<917536, 917631>>, <<917760, 917999>> }

\* Cased letters that are not skipped, as ranges <<lo, hi>>.
CasedRanges ==
    { <<65, 90>>, <<97, 122>>, <<170, 170>>, <<181, 181>>, <<186, 186>>,
      <<192, 214>>, <<216, 246>>, <<248, 442>>, <<444, 447>>, <<452, 659>>,
      <<661, 687>>, <<880, 883>>, <<886, 887>>, <<891, 893>>, <<895, 895>>,
      <<902, 902>>, <<904, 906>>, <<908, 908>>, <<910, 929>>, <<931, 1013>>,
      <<1015, 1153>>, <<1162, 1327>>, <<1329, 1366>>, <<1376, 1416>>, <<4256, 4293>>,
      <<4295, 4295>>, <<4301, 4301>>, <<4304, 4346>>, <<4349, 4351>>, <<5024, 5109>>,
      <<5112, 5117>>, <<7296, 7304>>, <<7312, 7354>>, <<7357, 7359>>, <<7424, 7467>>,
      <<7531, 7543>>, <<7545, 7578>>, <<7680, 7957>>, <<7960, 7965>>, <<7968, 8005>>,
      <<8008, 8013>>, <<8016, 8023>>, <<8025, 8025>>, <<8027, 8027>>, <<8029, 8029>>,
      <<8031, 8061>>, <<8064, 8116>>, <<8118, 8124>>, <<8126, 8126>>, <<8130, 8132>>,
      <<8134, 8140>>, <<8144, 8147>>, <<8150, 8155>>, <<8160, 8172>>, <<8178, 8180>>,
      <<8182, 8188>>, <<8450, 8450>>, <<8455, 8455>>, <<8458, 8467>>, <<8469, 8469>>,
      <<8473, 8477>>, <<8484, 8484>>, <<8486, 8486>>, <<8488, 8488>>, <<8490, 8493>>,
      <<8495, 8500>>, <<8505, 8505>>, <<8508, 8511>>, <<8517, 8521>>, <<8526, 8526>>,
      <<8544, 8575>>, <<8579, 8580>>, <<9398, 9449>>, <<11264, 11387>>, <<11390, 11492>>,
      <<11499, 11502>>, <<11506, 11507>>, <<11520, 11557>>, <<11559, 11559>>, <<11565, 11565>>,
      <<42560, 42605>>, <<42624, 42651>>, <<42786, 42863>>, <<42865, 42887>>, <<42891, 42894>>,
      <<42896, 42954>>, <<42960, 42961>>, <<42963, 42963>>, <<42965, 42969>>, <<42997, 42998>>,
      <<43002, 43002>>, <<43824, 43866>>, <<43872, 43880>>, <<43888, 43967>>, <<64256, 64262>>,
      <<64275, 64279>>, <<65313, 65338>>, <<65345, 65370>>, <<66560, 66639>>, <<66736, 66771>>,
      <<66776, 66811>>, <<66928, 66938>>, <<66940, 66954>>, <<66956, 66962>>, <<66964, 66965>>,
      <<66967, 66977>>, <<66979, 66993>>, <<66995, 67001>>, <<67003, 67004>>, <<68736, 68786>>,
      <<68800, 68850>>, <<71840, 71903>>, <<93760, 93823>>, <<119808, 119892>>, <<119894, 119964>>,
      <<119966, 119967>>, <<119970, 119970>>, <<119973, 119974>>, <<119977, 119980>>, <<119982, 119993>>,
      <<119995, 119995>>, <<119997, 120003>>, <<120005, 120069>>, <<120071, 120074>>, <<120077, 120084>>,
      <<120086, 120092>>, <<120094, 120121>>, <<120123, 120126>>, <<120128, 120132>>, <<120134, 120134>>,
      <<120138, 120144>>, <<120146, 120485>>, <<120488, 120512>>, <<120514, 120538>>, <<120540, 120570>>,
      <<120572, 120596>>, <<120598, 120628>>, <<120630, 120654>>, <<120656, 120686>>, <<120688, 120712>>,
      <<120714, 120744>>, <<120746, 120770>>, <<120772, 120779>>, <<122624, 122633>>, <<122635, 122654>>,
      <<125184, 125251>>, <<127280, 127305>>, <<127312, 127337>>, <<127344, 127369>> }

IsCaseIgnorable(c) == \E r \in CaseIgnorableRanges : c >= r[1] /\ c <= r[2]
IsCased(c) == \E r \in CasedRanges : c >= r[1] /\ c <= r[2]

\* The capital sigma at position i ends a word: the nearest code point
\* before it that is not skipped is a cased letter and the nearest one after
\* it, if any, is not.
final_sigma(s, i) ==
    /\ \E j \in 1..(i - 1) :
           /\ IsCased(s[j])
           /\ \A k \in (j + 1)..(i - 1) : IsCaseIgnorable(s[k])
    /\ ~ \E j \in (i + 1)..Len(s) :
           /\ IsCased(s[j])
           /\ \A k \in (i + 1)..(j - 1) : IsCaseIgnorable(s[k])

\* The code points position i of s is lowered to.
LowerAt(s, i) ==
    IF s[i] = CapitalSigma
    THEN << IF final_sigma(s, i) THEN FinalSmallSigma ELSE SmallSigma >>
    ELSE LowerChar(s[i])

RECURSIVE LowerFrom(_, _)
LowerFrom(s, i) ==
    IF i > Len(s) THEN <<>> ELSE LowerAt(s, i) \o LowerFrom(s, i + 1)

\* Variant of lower: the case folding is forgotten.
lower_identity(s) == s

\* str.lower(): classifier.py line 6.  The result has the length of s
\* unless s holds U+0130.
lower(s) ==
    IF \A i \in 1..Len(s) : s[i] # DottedCapitalI
    THEN [i \in 1..Len(s) |-> LowerAt(s, i)[1]]
    ELSE LowerFrom(s, 1)

\* str.upper() on one code point of the alphabet: 'a'..'z' map to 'A'..'Z'
\* and U+017F maps to 'S' (83).
UpperChar(c) == IF IsAsciiLower(c) THEN c - 32
                ELSE IF <<c>> = LongS THEN 83 ELSE c

upper(s) == [i \in 1..Len(s) |-> UpperChar(s[i])]

\* Letters and digits of the alphabet.
IsWordChar(c) ==
    IsAsciiUpper(c) \/ IsAsciiLower(c) \/ (c >= 48 /\ c <= 57) \/ <<c>> = LongS

\* k occurs in s at position i.
OccursAt(s, k, i) ==
    /\ i >= 1
    /\ i + Len(k) - 1 <= Len(s)
    /\ \A j \in 1..Len(k) : s[i + j - 1] = k[j]

\* Variant of Contains: k must occur as a whole word (a regex \bk\b).
ContainsWord(s, k) ==
    \E i \in 1..(Len(s) + 1) :
        /\ OccursAt(s, k, i)
        /\ (i = 1 \/ ~IsWordChar(s[i - 1]))
        /\ (i + Len(k) > Len(s) \/ ~IsWordChar(s[i + Len(k)]))

\* Python's `k in s` for strings: k occurs in s as a contiguous substring.
Contains(s, k) ==
    \E i \in 1..(Len(s) + 1) : OccursAt(s, k, i)

-----------------------------------------------------------------------------
(* engine/classifier.py *)

KW_intercompany  == <<105,110,116,101,114,99,111,109,112,97,110,121>>
KW_consolidation == <<99,111,110,115,111,108,105,100,97,116,105,111,110>>
KW_p2p           == <<112,50,112>>
KW_procure       == <<112,114,111,99,117,114,101>>
KW_o2c           == <<111,50,99>>
KW_order         == <<111,114,100,101,114>>
KW_r2r           == <<114,50,114>>
KW_record        == <<114,101,99,111,114,100>>
KW_close         == <<99,108,111,115,101>>

\* The strings classify_domain can return, in the order of its rules.
DomainLabels ==
    {"Intercompany", "Consolidation", "P2P", "O2C", "R2R", "General Finance"}

\* Variant of classify_domain: the final return is missing (None).
classify_domain_no_return(s) ==
    LET t == lower(s) IN
    IF Contains(t, KW_intercompany) THEN "Intercompany"
    ELSE IF Contains(t, KW_consolidation) THEN "Consolidation"
    ELSE IF Contains(t, KW_p2p) \/ Contains(t, KW_procure) THEN "P2P"
    ELSE IF Contains(t, KW_o2c) \/ Contains(t, KW_order) THEN "O2C"
    ELSE IF Contains(t, KW_r2r) \/ Contains(t, KW_record)
            \/ Contains(t, KW_close) THEN "R2R"
    ELSE "None"

\* Variant of classify_domain: the P2P rule is tested before the others.
classify_domain_p2p_first(s) ==
    LET t == lower(s) IN
    IF Contains(t, KW_p2p) \/ Contains(t, KW_procure) THEN "P2P"
    ELSE IF Contains(t, KW_intercompany) THEN "Intercompany"
    ELSE IF Contains(t, KW_consolidation) THEN "Consolidation"
    ELSE IF Contains(t, KW_o2c) \/ Contains(t, KW_order) THEN "O2C"
    ELSE IF Contains(t, KW_r2r) \/ Contains(t, KW_record)
            \/ Contains(t, KW_close) THEN "R2R"
    ELSE "General Finance"

\* Variant of classify_domain: the R2R rule lacks the keyword "record".
classify_domain_no_record(s) ==
    LET t == lower(s) IN
    IF Contains(t, KW_intercompany) THEN "Intercompany"
    ELSE IF Contains(t, KW_consolidation) THEN "Consolidation"
    ELSE IF Contains(t, KW_p2p) \/ Contains(t, KW_procure) THEN "P2P"
    ELSE IF Contains(t, KW_o2c) \/ Contains(t, KW_order) THEN "O2C"
    ELSE IF Contains(t, KW_r2r) \/ Contains(t, KW_close) THEN "R2R"
    ELSE "General Finance"

\* Variant of classify_domain: the default is the last rule's label.
classify_domain_default_r2r(s) ==
    LET t == lower(s) IN
    IF Contains(t, KW_intercompany) THEN "Intercompany"
    ELSE IF Contains(t, KW_consolidation) THEN "Consolidation"
    ELSE IF Contains(t, KW_p2p) \/ Contains(t, KW_procure) THEN "P2P"
    ELSE IF Contains(t, KW_o2c) \/ Contains(t, KW_order) THEN "O2C"
    ELSE "R2R"

\* Variant of classify_domain: the P2P rule returns its keyword, "p2p".
classify_domain_p2p_keyword(s) ==
    LET t == lower(s) IN
    IF Contains(t, KW_intercompany) THEN "Intercompany"
    ELSE IF Contains(t, KW_consolidation) THEN "Consolidation"
    ELSE IF Contains(t, KW_p2p) \/ Contains(t, KW_procure) THEN "p2p"
    ELSE IF Contains(t, KW_o2c) \/ Contains(t, KW_order) THEN "O2C"
    ELSE IF Contains(t, KW_r2r) \/ Contains(t, KW_record)
            \/ Contains(t, KW_close) THEN "R2R"
    ELSE "General Finance"

classify_domain(s) ==
    LET t == lower(s) IN
    IF Contains(t, KW_intercompany) THEN "Intercompany"
    ELSE IF Contains(t, KW_consolidation) THEN "Consolidation"
    ELSE IF Contains(t, KW_p2p) \/ Contains(t, KW_procure) THEN "P2P"
    ELSE IF Contains(t, KW_o2c) \/ Contains(t, KW_order) THEN "O2C"
    ELSE IF Contains(t, KW_r2r) \/ Contains(t, KW_record)
            \/ Contains(t, KW_close) THEN "R2R"
    ELSE "General Finance"

-----------------------------------------------------------------------------
(* engine/generator.py: the six string literals *)

Block_Intercompany ==
    << <<>>,
       <<"U+1F50D", "**Intercompany", "Root", "Cause", "Diagnosis**">>,
       <<"-", "Mismatched", "transaction", "timing">>,
       <<"-", "Lack", "of", "automated", "matching", "rules">>,
       <<"-", "Missing", "entity-level", "reconciliation", "governance">>,
       <<>>,
       <<"U+1F680", "**Recommended", "Actions**">>,
       <<"1.", "Implement", "automated", "IC", "reconciliation", "in", "SAP", "/", "Oracle.">>,
       <<"2.", "Create", "standardized", "IC", "templates", "&", "entity-level", "deadlines.">>,
       <<"3.", "Introduce", "rule-based", "matching", "(amount,", "currency,", "tolerance).">>,
       <<>> >>

Block_Consolidation ==
    << <<>>,
       <<"U+1F50D", "**Consolidation", "Root", "Cause", "Diagnosis**">>,
       <<"-", "Late", "submissions", "from", "entities">>,
       <<"-", "Manual", "consolidation", "adjustments">>,
       <<"-", "Lack", "of", "validations", "before", "group", "close">>,
       <<>>,
       <<"U+1F680", "**Recommended", "Actions**">>,
       <<"1.", "Introduce", "pre-close", "validation", "checks.">>,
       <<"2.", "Automate", "consolidation", "journals", "in", "BlackLine", "/", "OneStream.">>,
       <<"3.", "Enforce", "entity-level", "submission", "SLAs.">>,
       <<>> >>

Block_P2P ==
    << <<>>,
       <<"U+1F50D", "**P2P", "Diagnosis**">>,
       <<"-", "Invoice", "exceptions", "causing", "delays">>,
       <<"-", "Vendor", "master", "inconsistencies">>,
       <<"-", "Manual", "PO", "approvals">>,
       <<>>,
       <<"U+1F680", "**Recommended", "Actions**">>,
       <<"1.", "Implement", "3-way", "match", "automation.">>,
       <<"2.", "Establish", "vendor", "master", "governance.">>,
       <<"3.", "Digitize", "PO", "approval", "workflow.">>,
       <<>> >>

Block_O2C ==
    << <<>>,
       <<"U+1F50D", "**O2C", "Diagnosis**">>,
       <<"-", "Delayed", "billing">>,
       <<"-", "Manual", "cash", "application">>,
       <<"-", "Credit", "management", "inefficiencies">>,
       <<>>,
       <<"U+1F680", "**Recommended", "Actions**">>,
       <<"1.", "Automate", "billing", "triggers.">>,
       <<"2.", "Deploy", "cash", "application", "tools", "(HighRadius).">>,
       <<"3.", "Implement", "credit", "scoring", "&", "DSO", "dashboards.">>,
       <<>> >>

Block_R2R ==
    << <<>>,
       <<"U+1F50D", "**R2R", "Diagnosis**">>,
       <<"-", "Manual", "journal", "entries">>,
       <<"-", "Delayed", "reconciliations">>,
       <<"-", "Lack", "of", "standardized", "close", "checklist">>,
       <<>>,
       <<"U+1F680", "**Recommended", "Actions**">>,
       <<"1.", "Automate", "recurring", "journals", "in", "ERP.">>,
       <<"2.", "Implement", "BlackLine", "reconciliations.">>,
       <<"3.", "Deploy", "a", "global", "month-end", "close", "calendar.">>,
       <<>> >>

Block_GeneralFinance ==
    << <<>>,
       <<"U+1F680", "**General", "Transformation", "Recommendations**">>,
       <<"1.", "Assess", "AS-IS", "U+2192", "TO-BE", "processes.">>,
       <<"2.", "Define", "automation", "roadmap.">>,
       <<"3.", "Standardize", "controls", "&", "governance.">>,
       <<"4.", "Align", "Process", "+", "Tech", "+", "Data", "+", "People.">>,
       <<>> >>

\* Variant of generate_recommendations: the R2R test misspells the label.
generate_recommendations_r2r_typo(d, s) ==
    IF d = "Intercompany" THEN Block_Intercompany
    ELSE IF d = "Consolidation" THEN Block_Consolidation
    ELSE IF d = "P2P" THEN Block_P2P
    ELSE IF d = "O2C" THEN Block_O2C
    ELSE IF d = "R2r" THEN Block_R2R
    ELSE Block_GeneralFinance

\* Variant of generate_recommendations: the last action of the O2C text is
\* lost.
generate_recommendations_short_o2c(d, s) ==
    IF d = "Intercompany" THEN Block_Intercompany
    ELSE IF d = "Consolidation" THEN Block_Consolidation
    ELSE IF d = "P2P" THEN Block_P2P
    ELSE IF d = "O2C" THEN SubSeq(Block_O2C, 1, 9) \o << <<>> >>
    ELSE IF d = "R2R" THEN Block_R2R
    ELSE Block_GeneralFinance

\* Variant of generate_recommendations: the text is classified again and
\* the block is chosen by that label when it is a named one.
generate_recommendations_by_text(d, s) ==
    LET e == IF classify_domain(s) = "General Finance" THEN d
             ELSE classify_domain(s)
    IN  IF e = "Intercompany" THEN Block_Intercompany
        ELSE IF e = "Consolidation" THEN Block_Consolidation
        ELSE IF e = "P2P" THEN Block_P2P
        ELSE IF e = "O2C" THEN Block_O2C
        ELSE IF e = "R2R" THEN Block_R2R
        ELSE Block_GeneralFinance

\* Variant of generate_recommendations: the default branch returns an empty
\* string instead of the checklist.
generate_recommendations_no_default(d, s) ==
    IF d = "Intercompany" THEN Block_Intercompany
    ELSE IF d = "Consolidation" THEN Block_Consolidation
    ELSE IF d = "P2P" THEN Block_P2P
    ELSE IF d = "O2C" THEN Block_O2C
    ELSE IF d = "R2R" THEN Block_R2R
    ELSE << <<>> >>

\* Variant of generate_recommendations: the label is compared without
\* regard to case, so "p2p" selects the P2P text.
generate_recommendations_any_case(d, s) ==
    IF d \in {"Intercompany", "intercompany"} THEN Block_Intercompany
    ELSE IF d \in {"Consolidation", "consolidation"} THEN Block_Consolidation
    ELSE IF d \in {"P2P", "p2p"} THEN Block_P2P
    ELSE IF d \in {"O2C", "o2c"} THEN Block_O2C
    ELSE IF d \in {"R2R", "r2r"} THEN Block_R2R
    ELSE Block_GeneralFinance

\* Variant of generate_recommendations: a table indexed by the label, with
\* the default stored under "GeneralFinance"; any other label is a KeyError.
generate_recommendations_table(d, s) ==
    IF d = "Intercompany" THEN Block_Intercompany
    ELSE IF d = "Consolidation" THEN Block_Consolidation
    ELSE IF d = "P2P" THEN Block_P2P
    ELSE IF d = "O2C" THEN Block_O2C
    ELSE IF d = "R2R" THEN Block_R2R
    ELSE IF d = "GeneralFinance" THEN Block_GeneralFinance
    ELSE << <<"KeyError">> >>

\* Variant of generate_recommendations: the O2C branch returns the P2P text
\* it was copied from.
generate_recommendations_copied(d, s) ==
    IF d = "Intercompany" THEN Block_Intercompany
    ELSE IF d = "Consolidation" THEN Block_Consolidation
    ELSE IF d = "P2P" THEN Block_P2P
    ELSE IF d = "O2C" THEN Block_P2P
    ELSE IF d = "R2R" THEN Block_R2R
    ELSE Block_GeneralFinance

generate_recommendations(d, s) ==
    IF d = "Intercompany" THEN Block_Intercompany
    ELSE IF d = "Consolidation" THEN Block_Consolidation
    ELSE IF d = "P2P" THEN Block_P2P
    ELSE IF d = "O2C" THEN Block_O2C
    ELSE IF d = "R2R" THEN Block_R2R
    ELSE Block_GeneralFinance

-----------------------------------------------------------------------------
(* engine/llm.py *)

\* Characters str.strip() removes: the ASCII whitespace, the separators
\* U+001C..U+001F, U+0085, U+00A0, U+1680, U+2000..U+200A, U+2028, U+2029,
\* U+202F, U+205F and U+3000.
IsSpace(c) ==
    \/ c \in {9, 10, 11, 12, 13, 28, 29, 30, 31, 32, 133, 160}
    \/ c \in {5760, 8232, 8233, 8239, 8287, 12288}
    \/ (c >= 8192 /\ c <= 8202)

\* Variant of strip: only the leading whitespace is removed (lstrip).
strip_left(s) ==
    LET keep == { i \in 1..Len(s) : ~IsSpace(s[i]) } IN
    IF keep = {} THEN <<>>
    ELSE SubSeq(s, CHOOSE i \in keep : \A j \in keep : i <= j, Len(s))

\* str.strip(): llm.py lines 58, 61, 114, and the handlers of app.py.
strip(s) ==
    LET keep == { i \in 1..Len(s) : ~IsSpace(s[i]) } IN
    IF keep = {} THEN <<>>
    ELSE SubSeq(s, CHOOSE i \in keep : \A j \in keep : i <= j,
                   CHOOSE i \in keep : \A j \in keep : i >= j)

\* Values of os.getenv("OPENAI_API_KEY"): None when the variable is unset,
\* the empty string, or a key.
KeyUnset == "(unset)"
Keys == {KeyUnset, "", "sk-test"}

\* `not api_key`: llm.py line 19.
KeyMissing(k) == k = KeyUnset \/ k = ""

\* What client.chat.completions.create can do: raise (a network or API
\* error), or return a response with no choice, with a choice whose message
\* is None, whose content is None, or whose content is a string.
Contents ==
    { <<>>, <<32>>, <<10, 32>>, <<32, 72, 105, 10>>, <<72, 105>>, <<72, 32, 105>> }

Replies ==
    { [kind |-> k, content |-> <<>>] :
        k \in {"error", "nochoices", "nomessage", "nocontent"} }
    \cup { [kind |-> "content", content |-> c] : c \in Contents }

NoReply == [kind |-> "none", content |-> <<>>]
NoAI == [kind |-> "none", value |-> <<>>]

\* Variant of generate_ai_analysis: _get_client does not test the key; the
\* client is built and the request is sent and refused.
generate_ai_analysis_no_key_test(k, r) ==
    IF KeyMissing(k) \/ r.kind = "error"
    THEN [kind |-> "APIError", value |-> <<>>, built |-> 1, sent |-> 1]
    ELSE IF r.kind = "nochoices"
    THEN [kind |-> "IndexError", value |-> <<>>, built |-> 1, sent |-> 1]
    ELSE IF r.kind \in {"nomessage", "nocontent"} \/ r.content = <<>>
    THEN [kind |-> "RuntimeError", value |-> <<>>, built |-> 1, sent |-> 1]
    ELSE [kind |-> "returned", value |-> strip(r.content), built |-> 1, sent |-> 1]

\* generate_ai_analysis with the environment's key k, when the service
\* answers r to the request (if one is sent): how the call ends (the
\* exception raised, or "returned" and the value), and how many clients it
\* built and requests it sent.
\*   line 43, _get_client: LLMNotConfigured when the key is missing;
\*   line 97: the request; an exception of the client propagates;
\*   line 108: response.choices[0] is an IndexError without choices;
\*   line 109: content is None when the message is None;
\*   line 111: RuntimeError when content is None or "";
\*   line 114: content.strip().
generate_ai_analysis(k, r) ==
    IF KeyMissing(k)
    THEN [kind |-> "LLMNotConfigured", value |-> <<>>, built |-> 0, sent |-> 0]
    ELSE IF r.kind = "error"
    THEN [kind |-> "APIError", value |-> <<>>, built |-> 1, sent |-> 1]
    ELSE IF r.kind = "nochoices"
    THEN [kind |-> "IndexError", value |-> <<>>, built |-> 1, sent |-> 1]
    ELSE IF r.kind \in {"nomessage", "nocontent"} \/ r.content = <<>>
    THEN [kind |-> "RuntimeError", value |-> <<>>, built |-> 1, sent |-> 1]
    ELSE [kind |-> "returned", value |-> strip(r.content), built |-> 1, sent |-> 1]

-----------------------------------------------------------------------------
(* app.py *)

None == "None"

\* Lines 16-25: os.getenv(NAME, "") and `Client(...) if KEY else None`.
make_client(key, name) == IF key = "" THEN None ELSE name

\* The string of line 140, as the tokens of its split(); U+26A0 U+FE0F is the
\* warning sign.
WarningText ==
    <<"U+26A0U+FE0F", "OpenAI", "client", "not", "initialized.", "Please",
      "set", "OPENAI_API_KEY.">>

\* Variant of ask_gpt: the test of the client is missing; without a client
\* `client.chat` is an AttributeError.
ask_gpt_no_guard(c, r) ==
    IF c = None THEN [kind |-> "AttributeError", value |-> <<>>, sent |-> 0]
    ELSE IF r.kind = "error" THEN [kind |-> "APIError", value |-> <<>>, sent |-> 1]
    ELSE IF r.kind = "nochoices" THEN [kind |-> "IndexError", value |-> <<>>, sent |-> 1]
    ELSE IF r.kind = "nomessage" THEN [kind |-> "AttributeError", value |-> <<>>, sent |-> 1]
    ELSE IF r.kind = "nocontent" THEN [kind |-> "None", value |-> <<>>, sent |-> 1]
    ELSE [kind |-> "content", value |-> r.content, sent |-> 1]

\* ask_gpt (lines 133-148) with the module's client c, when the service
\* answers r: the warning string without a client and without a request;
\* else the request, whose exception propagates, and the content of the
\* first choice (which can be None).
ask_gpt(c, r) ==
    IF c = None THEN [kind |-> "warning", value |-> WarningText, sent |-> 0]
    ELSE IF r.kind = "error" THEN [kind |-> "APIError", value |-> <<>>, sent |-> 1]
    ELSE IF r.kind = "nochoices" THEN [kind |-> "IndexError", value |-> <<>>, sent |-> 1]
    ELSE IF r.kind = "nomessage" THEN [kind |-> "AttributeError", value |-> <<>>, sent |-> 1]
    ELSE IF r.kind = "nocontent" THEN [kind |-> "None", value |-> <<>>, sent |-> 1]
    ELSE [kind |-> "content", value |-> r.content, sent |-> 1]

\* ask_gpt returned a string (the warning or the content).
IsString(a) == a.kind \in {"warning", "content"}

\* What tavily_client.search can do: raise, or return a dictionary with a
\* list of results (each result is named by its url here).
SearchReplies ==
    { [kind |-> "error", results |-> <<>>] }
    \cup { [kind |-> "ok", results |-> rs] :
             rs \in { <<>>, <<"url1">>, <<"url1", "url2">> } }

\* tavily_search (lines 154-166): [] without a client and without a search.
tavily_search(t, f) ==
    IF t = None THEN [kind |-> "ok", results |-> <<>>, searched |-> 0]
    ELSE [kind |-> f.kind, results |-> f.results, searched |-> 1]

\* The context of line 185: the citations built from the results, or the
\* fixed sentence.
NoResultsContext ==
    [kind |-> "sentence",
     says |-> "No external search results were available.",
     cites |-> <<>>]

build_citation_context(results) ==
    [kind |-> "citations", says |-> "", cites |-> results]

NoAnswer == [kind |-> "none", value |-> <<>>, sent |-> 0]
NoContext == [kind |-> "none", says |-> "", cites |-> <<>>]

\* The three suggestion buttons of research mode (lines 513, 518, 523) and
\* the question each one puts in place of the text field (query_default).
NoButton == "none"

Suggestions ==
    {"Impact of AI on R2R", "Order-to-Cash best practices", "Working capital levers"}

query_default(b) ==
    CASE b = "Impact of AI on R2R" ->
           "How is AI changing Record to Report (R2R) processes in large enterprises?"
      [] b = "Order-to-Cash best practices" ->
           "What are best practices to optimize the Order-to-Cash cycle in a global company?"
      [] b = "Working capital levers" ->
           "Key working capital levers in P2P, O2C and Inventory management."

\* The value of `query` at line 529: the text typed in the field (code
\* points), or the question of the suggestion button pressed in this run.
NoQuestion == [kind |-> "none", typed |-> <<>>, suggested |-> ""]

the_query(query, button) ==
    IF button \in Suggestions
    THEN [kind |-> "suggested", typed |-> <<>>, suggested |-> query_default(button)]
    ELSE [kind |-> "typed", typed |-> query, suggested |-> ""]

\* `if query:`, line 529.
Truthy(q) == q.kind = "suggested" \/ q.typed # <<>>

\* Lines 516, 521, 526: a pressed suggestion button stores its question in
\* st.session_state["research_query"].
research_query(button, old) ==
    IF button \in Suggestions THEN query_default(button) ELSE old

\* What a run has shown when nothing was asked.
Quiet ==
    [warned |-> FALSE, rendered |-> FALSE, raised |-> "none", answer |-> NoAnswer,
     context |-> NoContext, sources |-> <<>>, searched |-> 0, sent |-> 0,
     question |-> NoQuestion]

\* answer_with_citations(query) (lines 183-210) followed by the rendering
\* of research_mode_ui (lines 536-537); an exception of the search or of
\* the request ends the run.
answer_with_citations(query, t, f, c, r) ==
    LET found == IF t # None THEN tavily_search(t, f)
                 ELSE [kind |-> "ok", results |-> <<>>, searched |-> 0]
    IN  IF found.kind = "error"
        THEN [Quiet EXCEPT !.raised = "SearchError", !.searched = found.searched,
                           !.question = query]
        ELSE LET results == found.results
                 context == IF results # <<>> THEN build_citation_context(results)
                            ELSE NoResultsContext
                 answer == ask_gpt(c, r)
             IN  [warned |-> FALSE,
                  rendered |-> IsString(answer),
                  raised |-> IF IsString(answer) THEN "none"
                             ELSE IF answer.kind = "None" THEN "AttributeError"
                             ELSE answer.kind,
                  answer |-> answer,
                  context |-> context,
                  sources |-> IF IsString(answer) THEN results ELSE <<>>,
                  searched |-> found.searched,
                  sent |-> answer.sent,
                  question |-> query]

\* research_mode_ui (lines 509-537) with the text field holding `query` and
\* the suggestion button `button` pressed (NoButton: none): a pressed button
\* replaces the query (lines 513-527); `if query:` (line 529).
research_mode_ui(query, button, t, f, c, r) ==
    LET q == the_query(query, button) IN
    IF ~Truthy(q) THEN Quiet ELSE answer_with_citations(q, t, f, c, r)

\* The tail of the five button handlers: the helper's single ask_gpt call,
\* then render_answer_box, which needs a string (None.replace is an
\* AttributeError).
Answered(c, r) ==
    LET answer == ask_gpt(c, r) IN
    [Quiet EXCEPT !.rendered = IsString(answer),
                  !.raised = IF IsString(answer) THEN "none"
                             ELSE IF answer.kind = "None" THEN "AttributeError"
                             ELSE answer.kind,
                  !.answer = answer,
                  !.sent = answer.sent]

Warned == [Quiet EXCEPT !.warned = TRUE]

\* finance_mode_ui, lines 570-578.
finance_mode_ui(pressed, prompt, c, r) ==
    IF ~pressed THEN Quiet
    ELSE IF strip(prompt) = <<>> THEN Warned
    ELSE Answered(c, r)

\* Variant of sop_mode_ui: `and` in place of `or` in the test of the inputs.
sop_mode_ui_and(pressed, process_name, process_context, steps_raw, c, r) ==
    IF ~pressed THEN Quiet
    ELSE IF strip(process_name) = <<>> /\ strip(steps_raw) = <<>> THEN Warned
    ELSE Answered(c, r)

\* sop_mode_ui, lines 602-610.
sop_mode_ui(pressed, process_name, process_context, steps_raw, c, r) ==
    IF ~pressed THEN Quiet
    ELSE IF strip(process_name) = <<>> \/ strip(steps_raw) = <<>> THEN Warned
    ELSE Answered(c, r)

\* automation_mode_ui, lines 642-650.
automation_mode_ui(pressed, process_desc, c, r) ==
    IF ~pressed THEN Quiet
    ELSE IF strip(process_desc) = <<>> THEN Warned
    ELSE Answered(c, r)

\* sap_mode_ui, lines 682-690.
sap_mode_ui(pressed, question, c, r) ==
    IF ~pressed THEN Quiet
    ELSE IF strip(question) = <<>> THEN Warned
    ELSE Answered(c, r)

\* deck_mode_ui, lines 720-728.
deck_mode_ui(pressed, context, c, r) ==
    IF ~pressed THEN Quiet
    ELSE IF strip(context) = <<>> THEN Warned
    ELSE Answered(c, r)

\* What a user can put in a text field: "", " ", "\n\t", "x", " x\n", and
\* U+3000 (an ideographic space) alone.
FieldTexts == { <<>>, <<32>>, <<10, 9>>, <<120>>, <<32, 120, 10>>, <<12288>> }

\* A search that returned nothing and a completion with a content: the
\* replies a handler is given where it asks for none.
NoFound == [kind |-> "ok", results |-> <<>>]
SomeReply == [kind |-> "content", content |-> <<72, 105>>]

\* No run in progress: the widgets hold nothing.
\*   at: "idle"; "searching" while tavily_client.search (line 158) has not
\*   returned; "asking" while client.chat.completions.create (line 142) has
\*   not returned; "end" when the script has run to its end or raised.
Idle ==
    [mode |-> "none", pressed |-> FALSE, button |-> NoButton, fields |-> <<>>,
     at |-> "idle", found |-> NoFound, shown |-> Quiet]

\* main() lines 491-502: the handler of the mode, with the widgets of the
\* run u, the search reply f and the completion reply r.
Handler(u, t, f, c, r) ==
    CASE u.mode = "research" ->
           research_mode_ui(u.fields[1], u.button, t, f, c, r)
      [] u.mode = "finance" -> finance_mode_ui(u.pressed, u.fields[1], c, r)
      [] u.mode = "sop" ->
           sop_mode_ui(u.pressed, u.fields[1], u.fields[2], u.fields[3], c, r)
      [] u.mode = "automation" -> automation_mode_ui(u.pressed, u.fields[1], c, r)
      [] u.mode = "sap" -> sap_mode_ui(u.pressed, u.fields[1], c, r)
      [] u.mode = "deck" -> deck_mode_ui(u.pressed, u.fields[1], c, r)

\* The handler goes past its tests (the button, the blank inputs, `if
\* query:`) into its `with st.spinner` block: what it shows is then neither
\* nothing nor the warning of the test.
EntersSpinner(u, t, c) == Handler(u, t, NoFound, c, SomeReply) \notin {Quiet, Warned}

\* The script has run to its end (or raised) with the replies u.found and r.
Finished(u, t, c, r) ==
    [u EXCEPT !.at = "end", !.shown = Handler(u, t, u.found, c, r)]

\* The script reaches ask_gpt: without a client the warning is returned
\* and rendered (line 140); with one the request is sent and the script
\* waits for the completion (line 142).
AtAsk(u, t, c) ==
    IF c = None THEN Finished(u, t, c, SomeReply)
    ELSE [u EXCEPT !.at = "asking", !.shown.sent = 1]

\* The context of line 185 once the search has returned `results`.
context_of(results) ==
    IF results # <<>> THEN build_citation_context(results) ELSE NoResultsContext

\* The script reaches line 184 of answer_with_citations: without a Tavily
\* client results is [] and the script goes on to ask_gpt; with one the
\* search is sent and the script waits for its result (line 158).
AtSearch(u, t, c) ==
    IF t = None THEN AtAsk([u EXCEPT !.shown.context = context_of(<<>>)], t, c)
    ELSE [u EXCEPT !.at = "searching", !.shown.searched = 1]

\* The script runs from the top with the widgets of u up to its first wait
\* or to its end.
Started(u, t, c) ==
    IF ~EntersSpinner(u, t, c) THEN Finished(u, t, c, SomeReply)
    ELSE IF u.mode = "research"
    THEN AtSearch([u EXCEPT !.shown.question = the_query(u.fields[1], u.button)], t, c)
    ELSE AtAsk(u, t, c)

-----------------------------------------------------------------------------
(* The core, statement by statement, in the frame of one caller *)

\* Concurrent callers (threads) of the two functions.
Callers == {"A", "B"}

\* A frame holds what a call can read and write: the argument `input`, the
\* local `text` of classify_domain after line 6 (`local`), the statement the
\* caller stands at (`at`), and the two return values.
\*   at: "idle"; "c6".."c19" the lines of classifier.py; "g" the call of
\*   generate_recommendations; "done".
IdleFrame ==
    [at |-> "idle", input |-> <<>>, local |-> <<>>, label |-> NoLabel,
     ret |-> NoBlock]

NoCalls == [c \in Callers |-> IdleFrame]

\* The tests of classifier.py lines 8-16: keywords, label returned, the line
\* that follows when no keyword is found.
RuleAt(at) ==
    CASE at = "c8"  -> [kws |-> {KW_intercompany}, label |-> "Intercompany", next |-> "c10"]
      [] at = "c10" -> [kws |-> {KW_consolidation}, label |-> "Consolidation", next |-> "c12"]
      [] at = "c12" -> [kws |-> {KW_p2p, KW_procure}, label |-> "P2P", next |-> "c14"]
      [] at = "c14" -> [kws |-> {KW_o2c, KW_order}, label |-> "O2C", next |-> "c16"]
      [] at = "c16" -> [kws |-> {KW_r2r, KW_record, KW_close}, label |-> "R2R", next |-> "c19"]

\* Variant of lower_step: the lowered text is kept in a module-level
\* variable that every call reads.
lower_step_global(fr, c) ==
    [d \in Callers |->
        IF d = c THEN [fr[d] EXCEPT !.local = lower(fr[c].input), !.at = "c8"]
        ELSE [fr[d] EXCEPT !.local = lower(fr[c].input)]]

\* Line 6: text = text.lower() rebinds the local name.
lower_step(fr, c) ==
    [fr EXCEPT ![c].local = lower(fr[c].input), ![c].at = "c8"]

\* Lines 8-17: one `if ... in text: return ...`.
test_step(fr, c) ==
    LET rule == RuleAt(fr[c].at) IN
    IF \E k \in rule.kws : Contains(fr[c].local, k)
    THEN [fr EXCEPT ![c].label = rule.label, ![c].at = "g"]
    ELSE [fr EXCEPT ![c].at = rule.next]

\* Line 19: return "General Finance".
default_step(fr, c) ==
    [fr EXCEPT ![c].label = "General Finance", ![c].at = "g"]

\* generate_recommendations(label, input): a chain of comparisons of its
\* own argument and the return of a literal.
generate_step(fr, c) ==
    [fr EXCEPT ![c].ret = generate_recommendations(fr[c].label, fr[c].input),
               ![c].at = "done"]

-----------------------------------------------------------------------------
(* The caller: problem statements it can supply *)

\* Lowercase fragments a caller types: the nine keywords, keywords embedded
\* in longer words ("disclosed", "border", "xp2py"), text without any
\* keyword (" ", "unrelated text"), a keyword split over two fragments
\* ("clos" + "e") and "close" spelled with U+017F.
BaseFragments ==
    { KW_intercompany, KW_consolidation, KW_p2p, KW_procure, KW_o2c,
      KW_order, KW_r2r, KW_record, KW_close,
      <<100,105,115>> \o KW_close \o <<100>>,
      <<98>> \o KW_order,
      <<120>> \o KW_p2p \o <<121>>,
      <<32>>,
      <<117,110,114,101,108,97,116,101,100,32,116,101,120,116>>,
      <<99,108,111,115>>,
      <<101>>,
      <<99,108,111>> \o LongS \o <<101>> }

\* Each fragment can be typed as it is or in capitals.
Fragments == BaseFragments \cup { upper(f) : f \in BaseFragments }

-----------------------------------------------------------------------------
(* The state machine *)

Init ==
    /\ text = <<>>
    /\ parts = 0
    /\ pc = "input"
    /\ domain = NoLabel
    /\ arg = NoLabel
    /\ block = NoBlock
    /\ api_key = KeyUnset
    /\ reply = NoReply
    /\ ai = NoAI
    /\ clients = 0
    /\ requests = 0
    /\ client = None
    /\ tavily_client = None
    /\ searches = 0
    /\ runs = 0
    /\ ui = Idle
    /\ session_state = None
    /\ frames = NoCalls

\* The caller extends the problem statement by one fragment.
Type(f) ==
    /\ pc = "input"
    /\ parts < MaxParts
    /\ text' = text \o f
    /\ parts' = parts + 1
    /\ UNCHANGED <<pc, domain, arg, block>>
    /\ UNCHANGED outside_core

\* domain = classify_domain(text)
Classify ==
    /\ pc = "input"
    /\ domain' = classify_domain(text)
    /\ pc' = "classified"
    /\ UNCHANGED <<text, parts, arg, block>>
    /\ UNCHANGED outside_core

\* block = generate_recommendations(domain, text): the label is the one the
\* classifier returned for the same text.
Recommend ==
    /\ pc = "classified"
    /\ arg' = domain
    /\ block' = generate_recommendations(domain, text)
    /\ pc' = "recommended"
    /\ UNCHANGED <<text, parts, domain>>
    /\ UNCHANGED outside_core

\* Labels a caller can pass to generate_recommendations on its own: the six
\* of the classifier, and strings that are none of them (the specification's
\* spelling of the default, a keyword in lowercase, an unknown word).
CallerLabels == DomainLabels \cup {"GeneralFinance", "p2p", "Treasury"}

\* block = generate_recommendations(l, text) with a label the caller chose,
\* whatever the text is: the function is public and takes any label.
RecommendDirect(l) ==
    /\ pc = "input"
    /\ arg' = l
    /\ block' = generate_recommendations(l, text)
    /\ pc' = "recommended"
    /\ UNCHANGED <<text, parts, domain>>
    /\ UNCHANGED outside_core

\* The caller starts over with a new problem statement; nothing persists.
Reset ==
    /\ pc = "recommended"
    /\ text' = <<>>
    /\ parts' = 0
    /\ pc' = "input"
    /\ domain' = NoLabel
    /\ arg' = NoLabel
    /\ block' = NoBlock
    /\ UNCHANGED outside_core

Next ==
    \/ \E f \in Fragments : Type(f)
    \/ Classify
    \/ Recommend
    \/ \E l \in CallerLabels : RecommendDirect(l)
    \/ Reset

Spec == Init /\ [][Next]_vars

-----------------------------------------------------------------------------
(* The rule-based core followed by the AI analysis of engine/llm.py *)

\* A process starts with a key in its environment (or none) and a problem
\* statement.
InitLLM ==
    /\ text \in Fragments \cup {<<>>}
    /\ parts = IF text = <<>> THEN 0 ELSE 1
    /\ pc = "input"
    /\ domain = NoLabel
    /\ arg = NoLabel
    /\ block = NoBlock
    /\ api_key \in Keys
    /\ reply = NoReply
    /\ ai = NoAI
    /\ clients = 0
    /\ requests = 0
    /\ client = None
    /\ tavily_client = None
    /\ searches = 0
    /\ runs = 0
    /\ ui = Idle
    /\ session_state = None
    /\ frames = NoCalls

\* generate_ai_analysis(text, domain, block), lines 43-97: _get_client
\* reads the key; without one the call ends with LLMNotConfigured; with one
\* the client is built, the request is sent and the call waits inside
\* client.chat.completions.create (pc = "waiting").
CallAI ==
    /\ pc = "recommended"
    /\ LET out == generate_ai_analysis(api_key, NoReply) IN
        /\ clients' = clients + out.built
        /\ requests' = requests + out.sent
        /\ IF out.sent = 0
           THEN /\ ai' = [kind |-> out.kind, value |-> out.value]
                /\ pc' = "analysed"
           ELSE /\ ai' = ai
                /\ pc' = "waiting"
    /\ UNCHANGED <<text, parts, domain, arg, block, api_key, reply>>
    /\ UNCHANGED <<appvars, frames>>

\* Lines 97-114: the request raises or the service answers r; the content
\* is read, tested and stripped.
ResponseAI(r) ==
    /\ pc = "waiting"
    /\ LET out == generate_ai_analysis(api_key, r) IN
        ai' = [kind |-> out.kind, value |-> out.value]
    /\ reply' = r
    /\ pc' = "analysed"
    /\ UNCHANGED <<text, parts, domain, arg, block, api_key, clients, requests>>
    /\ UNCHANGED <<appvars, frames>>

NextLLM ==
    \/ Classify
    \/ Recommend
    \/ CallAI
    \/ \E r \in Replies : ResponseAI(r)

SpecLLM == InitLLM /\ [][NextLLM]_vars

-----------------------------------------------------------------------------
(* The Streamlit application app.py *)

\* The module is loaded with the two keys of the environment (each set or
\* not); app.py imports neither classify_domain nor
\* generate_recommendations, so the core is never called.
InitApp ==
    /\ text = <<>>
    /\ parts = 0
    /\ pc = "input"
    /\ domain = NoLabel
    /\ arg = NoLabel
    /\ block = NoBlock
    /\ api_key = KeyUnset
    /\ reply = NoReply
    /\ ai = NoAI
    /\ clients = 0
    /\ requests = 0
    /\ client \in { make_client(k, "OpenAI") : k \in {"", "sk-test"} }
    /\ tavily_client \in { make_client(k, "TavilyClient") : k \in {"", "tvly-test"} }
    /\ searches = 0
    /\ runs = 0
    /\ ui = Idle
    /\ session_state = None
    /\ frames = NoCalls

\* The script goes on to the position u; the searches and requests it has
\* sent on the way are counted.
Script(u) ==
    /\ ui' = u
    /\ requests' = requests + (u.shown.sent - ui.shown.sent)
    /\ searches' = searches + (u.shown.searched - ui.shown.searched)

\* A run of the script in mode m, with the widgets holding `fields` and the
\* button `button` pressed (NoButton: none), up to its first wait or its end.
Run(m, button, fields) ==
    /\ ui.mode = "none"
    /\ runs < MaxRuns
    /\ runs' = runs + 1
    /\ Script(Started([Idle EXCEPT !.mode = m, !.pressed = (button # NoButton),
                                   !.button = button, !.fields = fields],
                      tavily_client, client))
    /\ session_state' =
           IF m = "research" THEN research_query(button, session_state)
           ELSE session_state
    /\ UNCHANGED <<corevars, api_key, reply, ai, clients, client, tavily_client>>
    /\ UNCHANGED frames

RunResearch(query, button) == Run("research", button, <<query>>)

RunFinance(pressed, prompt) ==
    Run("finance", IF pressed THEN "Generate Transformation Plan" ELSE NoButton,
        <<prompt>>)

RunSop(pressed, process_name, process_context, steps_raw) ==
    Run("sop", IF pressed THEN "Generate SOP" ELSE NoButton,
        <<process_name, process_context, steps_raw>>)

RunAutomation(pressed, process_desc) ==
    Run("automation", IF pressed THEN "Analyze Automation Potential" ELSE NoButton,
        <<process_desc>>)

RunSap(pressed, question) ==
    Run("sap", IF pressed THEN "Ask SAP Copilot" ELSE NoButton, <<question>>)

RunDeck(pressed, context) ==
    Run("deck", IF pressed THEN "Generate Deck Outline" ELSE NoButton, <<context>>)

\* tavily_client.search (line 158) raises or returns f: the script builds
\* the context (line 185) and goes on to ask_gpt (line 208).
SearchReturns(f) ==
    /\ ui.at = "searching"
    /\ LET u == [ui EXCEPT !.found = f] IN
       IF f.kind = "error"
       THEN Script(Finished(u, tavily_client, client, SomeReply))
       ELSE Script(AtAsk([u EXCEPT !.shown.context = context_of(f.results)],
                         tavily_client, client))
    /\ UNCHANGED <<corevars, api_key, reply, ai, clients, client, tavily_client>>
    /\ UNCHANGED <<runs, session_state, frames>>

\* client.chat.completions.create (line 142) raises or returns r: the
\* script renders the answer (or raises) and ends.
CompletionReturns(r) ==
    /\ ui.at = "asking"
    /\ Script(Finished(ui, tavily_client, client, r))
    /\ UNCHANGED <<corevars, api_key, reply, ai, clients, client, tavily_client>>
    /\ UNCHANGED <<runs, session_state, frames>>

\* The user touches a widget: Streamlit stops the script if it is still
\* running (what it waits for is not rendered) and runs it again from the
\* top; st.session_state is kept.
Rerun ==
    /\ ui.mode # "none"
    /\ ui' = Idle
    /\ UNCHANGED <<corevars, llmvars, client, tavily_client, searches, runs>>
    /\ UNCHANGED <<session_state, frames>>

NextApp ==
    \/ \E q \in FieldTexts, b \in Suggestions \cup {NoButton} : RunResearch(q, b)
    \/ \E b \in BOOLEAN, p \in FieldTexts : RunFinance(b, p)
    \/ \E b \in BOOLEAN, n \in FieldTexts, s \in FieldTexts :
           \E x \in {<<>>, <<120>>} : RunSop(b, n, x, s)
    \/ \E b \in BOOLEAN, p \in FieldTexts : RunAutomation(b, p)
    \/ \E b \in BOOLEAN, q \in FieldTexts : RunSap(b, q)
    \/ \E b \in BOOLEAN, x \in FieldTexts : RunDeck(b, x)
    \/ \E f \in SearchReplies : SearchReturns(f)
    \/ \E r \in Replies : CompletionReturns(r)
    \/ Rerun

SpecApp == InitApp /\ [][NextApp]_vars

-----------------------------------------------------------------------------
(* Concurrent callers of the core *)

\* Problem statements of the concurrent callers.
ConcTexts == BaseFragments \cup {<<>>, upper(KW_intercompany), upper(KW_close)}

InitConc ==
    /\ text = <<>>
    /\ parts = 0
    /\ pc = "input"
    /\ domain = NoLabel
    /\ arg = NoLabel
    /\ block = NoBlock
    /\ api_key = KeyUnset
    /\ reply = NoReply
    /\ ai = NoAI
    /\ clients = 0
    /\ requests = 0
    /\ client = None
    /\ tavily_client = None
    /\ searches = 0
    /\ runs = 0
    /\ ui = Idle
    /\ session_state = None
    /\ frames = NoCalls

\* Caller c calls classify_domain(s).
Call(c, s) ==
    /\ frames[c].at = "idle"
    /\ frames' = [frames EXCEPT ![c].input = s, ![c].at = "c6"]
    /\ UNCHANGED <<corevars, llmvars, appvars>>

\* Caller c executes its next statement; the scheduler may switch callers
\* between any two statements.
Step(c) ==
    /\ frames[c].at \notin {"idle", "done"}
    /\ frames' =
           CASE frames[c].at = "c6"  -> lower_step(frames, c)
             [] frames[c].at = "c19" -> default_step(frames, c)
             [] frames[c].at = "g"   -> generate_step(frames, c)
             [] OTHER                -> test_step(frames, c)
    /\ UNCHANGED <<corevars, llmvars, appvars>>

NextConc ==
    \/ \E c \in Callers, s \in ConcTexts : Call(c, s)
    \/ \E c \in Callers : Step(c)

SpecConc == InitConc /\ [][NextConc]_vars

TypeOK ==
    /\ pc \in {"input", "classified", "recommended"}
    /\ parts \in 0..MaxParts
    /\ (pc = "classified") => (domain # NoLabel)
    /\ (pc = "recommended") <=> (arg # NoLabel)
    /\ (pc = "recommended") <=> (block # NoBlock)


-----------------------------------------------------------------------------
(* The classifier's contract *)

\* The five named labels in priority order, and the keywords the
\* specification lists for each.
NamedLabels == <<"Intercompany", "Consolidation", "P2P", "O2C", "R2R">>

KeywordsOf(l) ==
    CASE l = "Intercompany"  -> {KW_intercompany}
      [] l = "Consolidation" -> {KW_consolidation}
      [] l = "P2P"           -> {KW_p2p, KW_procure}
      [] l = "O2C"           -> {KW_o2c, KW_order}
      [] l = "R2R"           -> {KW_r2r, KW_record, KW_close}
      [] OTHER               -> {}

\* Position of a label in the priority order; the default comes last.
Rank(l) ==
    IF \E i \in 1..Len(NamedLabels) : NamedLabels[i] = l
    THEN CHOOSE i \in 1..Len(NamedLabels) : NamedLabels[i] = l
    ELSE Len(NamedLabels) + 1

\* The text with 'A'..'Z' replaced by 'a'..'z'.
AsciiLowerStr(s) ==
    [i \in 1..Len(s) |-> IF IsAsciiUpper(s[i]) THEN s[i] + 32 ELSE s[i]]

\* The named labels that have a keyword in the lowercased text s.
Present(s) ==
    LET t == AsciiLowerStr(s) IN
    { l \in DomainLabels :
        \E k \in KeywordsOf(l) : \E i \in 1..Len(t) : OccursAt(t, k, i) }

\* classify_domain has just returned for the text the caller holds.
Classified == pc = "classified"

\* C1: classify is total: for every input (empty, whitespace-only, any
\* casing, with or without keywords) the call returns one value, and that
\* value is one of the six labels of the closed set, never None.
C1_ClassifyTotal == Classified => domain \in DomainLabels

\* An input of two fragments in capitals has been classified.
C1_Witness ==
    /\ pc = "classified"
    /\ parts = 2
    /\ text = upper(KW_order) \o upper(KW_record)
    /\ domain = "O2C"

\* C2: when keywords of two or more labels occur in the input, the result
\* is the label earliest in Intercompany > Consolidation > P2P > O2C > R2R
\* among them, wherever in the text the keywords stand.
C2_PriorityOrder ==
    Classified =>
        LET P == Present(text) IN
        (Cardinality(P) >= 2) =>
            /\ domain \in P
            /\ \A l \in P : Rank(domain) <= Rank(l)

\* "p2p" stands before "intercompany" in the text and Intercompany wins.
C2_Witness ==
    /\ pc = "classified"
    /\ text = KW_p2p \o KW_intercompany
    /\ domain = "Intercompany"

\* C3: a named label is returned only when one of its own keywords occurs
\* in the lowercased input, and each keyword of the table, with no keyword
\* of a higher-priority label present, is sufficient for its label.
C3_KeywordSets ==
    Classified =>
        LET P == Present(text) IN
        /\ (domain # "General Finance") => (domain \in P)
        /\ \A l \in P : (\A h \in P : Rank(l) <= Rank(h)) => domain = l

\* "record" alone classifies as R2R.
C3_Witness ==
    /\ pc = "classified"
    /\ text = KW_record
    /\ domain = "R2R"

\* C4: when no keyword of any rule occurs in the input the result is the
\* default label; the empty string and whitespace-only strings are such
\* inputs.
C4_DefaultLabel ==
    Classified =>
        /\ (Present(text) = {}) => domain = "General Finance"
        /\ (\A i \in 1..Len(text) : text[i] = 32) => domain = "General Finance"

\* A whitespace-only input has been classified as the default.
C4_Witness ==
    /\ pc = "classified"
    /\ text = <<32, 32>>
    /\ domain = "General Finance"

\* Re-casings of a text that change ASCII letters only.
AsciiUpperStr(s) ==
    [i \in 1..Len(s) |-> IF IsAsciiLower(s[i]) THEN s[i] - 32 ELSE s[i]]

AsciiSwapStr(s) ==
    [i \in 1..Len(s) |->
        IF IsAsciiLower(s[i]) THEN s[i] - 32
        ELSE IF IsAsciiUpper(s[i]) THEN s[i] + 32 ELSE s[i]]

AsciiMixedStr(s) ==
    [i \in 1..Len(s) |->
        IF i % 2 = 1 /\ IsAsciiLower(s[i]) THEN s[i] - 32
        ELSE IF i % 2 = 0 /\ IsAsciiUpper(s[i]) THEN s[i] + 32 ELSE s[i]]

AsciiRecasings(s) ==
    {AsciiUpperStr(s), AsciiLowerStr(s), AsciiSwapStr(s), AsciiMixedStr(s)}

\* C5 as stated: classify(s) equals classify of any re-casing of s, such as
\* s.upper() and s.lower(), for every input string s.
C5_Original ==
    Classified =>
        /\ classify_domain(upper(text)) = domain
        /\ classify_domain(lower(text)) = domain

\* C5 (amended): classify is insensitive to the casing of ASCII letters: for
\* every input s, classify(s) equals classify of every string obtained from
\* s by changing the case of ASCII letters only (all upper, all lower,
\* swapped, mixed).
C5_AsciiCaseInsensitive ==
    Classified => \A r \in AsciiRecasings(text) : classify_domain(r) = domain

\* A keyword written in capitals has matched.
C5_Witness ==
    /\ pc = "classified"
    /\ text = upper(KW_intercompany) \o <<32>>
    /\ domain = "Intercompany"

\* k occurs in s next to a letter or digit, so not as a word of its own.
EmbeddedIn(s, k) ==
    \E i \in 1..Len(s) :
        /\ OccursAt(s, k, i)
        /\ \/ (i > 1 /\ IsWordChar(s[i - 1]))
           \/ (i + Len(k) <= Len(s) /\ IsWordChar(s[i + Len(k)]))

\* C6: matching is plain substring containment: a keyword embedded in a
\* longer word or next to other characters triggers its rule as a standalone
\* word would ("close" in "disclosed", "order" in "border", "p2p" in
\* "xp2py").
C6_SubstringMatch ==
    Classified =>
        /\ LET P == Present(text)
               t == AsciiLowerStr(text)
           IN  \A l \in P : \A k \in KeywordsOf(l) :
                   ( /\ EmbeddedIn(t, k)
                     /\ \A h \in P : Rank(l) <= Rank(h) )
                   => domain = l
        /\ (text = <<100,105,115>> \o KW_close \o <<100>>) => domain = "R2R"
        /\ (text = <<98>> \o KW_order) => domain = "O2C"
        /\ (text = <<120>> \o KW_p2p \o <<121>>) => domain = "P2P"

\* "xp2py" has been classified as P2P.
C6_Witness ==
    /\ pc = "classified"
    /\ text = <<120>> \o KW_p2p \o <<121>>
    /\ domain = "P2P"

-----------------------------------------------------------------------------
(* The generator's contract *)

\* Reading a block: a section heading is a line that opens with one of the
\* two emoji, a root-cause item a line that opens with "-", a recommended
\* action a line that opens with a number and a full stop.
IsHeading(line) == Len(line) > 1 /\ line[1] \in {"U+1F50D", "U+1F680"}
IsRootCause(line) == Len(line) > 1 /\ line[1] = "-"
IsAction(line) ==
    Len(line) > 1 /\ line[1] \in {"1.", "2.", "3.", "4.", "5.", "6.", "7.", "8.", "9."}

Headings(b) == SelectSeq(b, IsHeading)
RootCauses(b) == SelectSeq(b, IsRootCause)
Actions(b) == SelectSeq(b, IsAction)

\* The kinds of the lines of a block, in order.
KindOf(line) ==
    IF line = <<>> THEN "blank"
    ELSE IF IsHeading(line) THEN "heading"
    ELSE IF IsRootCause(line) THEN "cause"
    ELSE IF IsAction(line) THEN "action"
    ELSE "text"

Shape(b) == [i \in 1..Len(b) |-> KindOf(b[i])]

\* The title of a heading: the tokens after the emoji, inside ** **.
Title(line) == Tail(line)

EndsWith(s, t) ==
    Len(s) >= Len(t) /\ SubSeq(s, Len(s) - Len(t) + 1, Len(s)) = t

\* generate_recommendations has returned for a label of the closed set.
Recommended == pc = "recommended" /\ arg \in DomainLabels

\* C7 as stated: for every label of the closed set, the default included,
\* and any text, both the root-cause list and the action list of the
\* returned block are non-empty.
C7_Original ==
    Recommended => (RootCauses(block) # <<>> /\ Actions(block) # <<>>)

\* C7 (amended): for each of the five named labels and any text both lists
\* of the returned block are non-empty; for the default label the action
\* list is non-empty and the block has no root-cause list.
C7_NonEmptyLists ==
    Recommended =>
        /\ Actions(block) # <<>>
        /\ (arg # "General Finance") => RootCauses(block) # <<>>
        /\ (arg = "General Finance") => RootCauses(block) = <<>>

\* The generator was called with R2R and a text that names another domain.
C7_Witness ==
    /\ pc = "recommended"
    /\ arg = "R2R"
    /\ text = KW_procure
    /\ Len(RootCauses(block)) = 3

\* C8 as stated: for each of the six labels the block has 3 to 4 root-cause
\* items and exactly 3 actions, under two sections named "Root Cause
\* Diagnosis" and "Recommended Actions".
C8_Original ==
    Recommended =>
        /\ Len(RootCauses(block)) \in 3..4
        /\ Len(Actions(block)) = 3
        /\ Len(Headings(block)) = 2
        /\ EndsWith(Title(Headings(block)[1]), <<"Root", "Cause", "Diagnosis**">>)
        /\ Title(Headings(block)[2]) = <<"**Recommended", "Actions**">>

\* C8 (amended): for each of the five named labels the block is a diagnosis
\* section of exactly 3 root-cause items followed by a section "Recommended
\* Actions" of exactly 3 actions; the diagnosis section is titled "<label>
\* Root Cause Diagnosis" for Intercompany and Consolidation and "<label>
\* Diagnosis" for P2P, O2C and R2R.  The default label's block is one
\* section "General Transformation Recommendations" of 4 actions and no
\* root-cause item.
C8_BlockShape ==
    Recommended =>
        IF arg = "General Finance"
        THEN /\ Shape(block) = <<"blank", "heading", "action", "action",
                                 "action", "action", "blank">>
             /\ Title(block[2]) =
                    <<"**General", "Transformation", "Recommendations**">>
        ELSE /\ Shape(block) = <<"blank", "heading", "cause", "cause", "cause",
                                 "blank", "heading", "action", "action",
                                 "action", "blank">>
             /\ Title(block[7]) = <<"**Recommended", "Actions**">>
             /\ block[2][1] = "U+1F50D"
             /\ (arg = "Intercompany") =>
                    Title(block[2]) = <<"**Intercompany", "Root", "Cause", "Diagnosis**">>
             /\ (arg = "Consolidation") =>
                    Title(block[2]) = <<"**Consolidation", "Root", "Cause", "Diagnosis**">>
             /\ (arg = "P2P") => Title(block[2]) = <<"**P2P", "Diagnosis**">>
             /\ (arg = "O2C") => Title(block[2]) = <<"**O2C", "Diagnosis**">>
             /\ (arg = "R2R") => Title(block[2]) = <<"**R2R", "Diagnosis**">>

\* The classifier's label O2C has been passed on and the block returned.
C8_Witness ==
    /\ pc = "recommended"
    /\ domain = "O2C"
    /\ arg = "O2C"
    /\ Len(Actions(block)) = 3

\* Texts a second caller could pass with the same label.
OtherTexts == Fragments \cup {<<>>}

\* C9: the output depends on the label only: for the label of the call and
\* any other text, generate_recommendations returns the block it returned
\* for the text of the call.
C9_TextIndependent ==
    (pc = "recommended") =>
        \A t \in OtherTexts : generate_recommendations(arg, t) = block

\* The generator was called with Consolidation and a text that names P2P
\* and Intercompany, and returned the Consolidation block.
C9_Witness ==
    /\ pc = "recommended"
    /\ arg = "Consolidation"
    /\ text = KW_p2p \o KW_intercompany
    /\ Title(block[2]) = <<"**Consolidation", "Root", "Cause", "Diagnosis**">>

\* C10: called with the default label, generate_recommendations returns
\* the generic checklist: the heading "General Transformation
\* Recommendations" and exactly four steps numbered 1 to 4; a text, not an
\* error.
C10_DefaultChecklist ==
    (pc = "recommended" /\ arg = "General Finance") =>
        /\ block # NoBlock
        /\ Len(Headings(block)) = 1
        /\ Title(Headings(block)[1]) =
               <<"**General", "Transformation", "Recommendations**">>
        /\ Len(Actions(block)) = 4
        /\ \A i \in 1..4 : Actions(block)[i][1] = <<"1.", "2.", "3.", "4.">>[i]
        /\ Actions(block)[1][2] = "Assess"
        /\ Actions(block)[2][2] = "Define"
        /\ Actions(block)[3][2] = "Standardize"
        /\ Actions(block)[4][2] = "Align"

\* The classifier's default for an input without keywords has been passed
\* on and the checklist returned.
C10_Witness ==
    /\ pc = "recommended"
    /\ domain = "General Finance"
    /\ arg = "General Finance"
    /\ text # <<>>
    /\ Len(Actions(block)) = 4

\* C11: called with a label outside the closed set (a differently-cased or
\* misspelled label, any other string) generate_recommendations returns
\* what it returns for the default label, and returns normally.
C11_OutOfRangeFallback ==
    (pc = "recommended" /\ arg \notin DomainLabels) =>
        /\ block # NoBlock
        /\ block = generate_recommendations("General Finance", text)
        /\ Len(RootCauses(block)) = 0
        /\ Len(Actions(block)) = 4

\* The generator was called with the lowercase label "p2p" and returned the
\* generic checklist.
C11_Witness ==
    /\ pc = "recommended"
    /\ arg = "p2p"
    /\ text = KW_p2p
    /\ block[2] = <<"U+1F680", "**General", "Transformation", "Recommendations**">>

\* The texts generate_recommendations can return.
DefinedBlocks ==
    { Block_Intercompany, Block_Consolidation, Block_P2P, Block_O2C,
      Block_R2R, Block_GeneralFinance }

\* C12: the composition recommend(classify(s), s) never raises: for every
\* input, the empty and the non-ASCII ones included, each of the two calls
\* can be made and completes, and the result is one of the defined blocks.
C12_CompositionTotal ==
    /\ (pc = "input") => ENABLED Classify
    /\ (pc = "classified") => ENABLED Recommend
    /\ (pc = "recommended" /\ domain # NoLabel) =>
           (arg = domain /\ block \in DefinedBlocks)

\* The composition has completed for a non-ASCII input.
C12_Witness ==
    /\ pc = "recommended"
    /\ domain # NoLabel
    /\ text = <<99,108,111>> \o LongS \o <<101>>
    /\ block \in DefinedBlocks

\* C13: the blocks are associated 1:1 with the six labels: no other label
\* of the closed set yields the block that was returned for the label of
\* the call.
C13_BlocksInjective ==
    (pc = "recommended" /\ arg \in DomainLabels) =>
        \A l \in DomainLabels \ {arg} :
            generate_recommendations(l, text) # block

\* The generator has returned for O2C, called with a text about procurement.
C13_Witness ==
    /\ pc = "recommended"
    /\ arg = "O2C"
    /\ text = KW_procure
    /\ block = Block_O2C

\* The block the specification associates with each label.
OwnBlock(l) ==
    CASE l = "Intercompany"    -> Block_Intercompany
      [] l = "Consolidation"   -> Block_Consolidation
      [] l = "P2P"             -> Block_P2P
      [] l = "O2C"             -> Block_O2C
      [] l = "R2R"             -> Block_R2R
      [] l = "General Finance" -> Block_GeneralFinance
      [] OTHER                 -> NoBlock

\* C18: every label classify_domain returns is routed by
\* generate_recommendations to the block of that same label: the five named
\* labels reach their own branch and the classifier's default reaches the
\* generic block.
C18_Routing ==
    (pc = "recommended" /\ domain # NoLabel) =>
        (arg = domain /\ block = OwnBlock(domain))

\* The classifier's label Consolidation has reached the Consolidation block.
C18_Witness ==
    /\ pc = "recommended"
    /\ domain = "Consolidation"
    /\ block = Block_Consolidation

-----------------------------------------------------------------------------
(* The AI analysis: engine/llm.py *)

\* Exceptions with which generate_ai_analysis can end.
AIExceptions == {"LLMNotConfigured", "APIError", "IndexError", "RuntimeError"}

\* The service failed: the request raised, or the response carries no
\* content (no choice, no message, content None or "").
ReplyFailed(r) ==
    \/ r.kind \in {"error", "nochoices", "nomessage", "nocontent"}
    \/ (r.kind = "content" /\ r.content = <<>>)

\* C14: a failure of the LLM service (missing key, network error, empty
\* response) does not change the label and the block of the same input, and
\* reaches the caller as an exception, never as a returned analysis; with a
\* missing key the exception is LLMNotConfigured and no client is built and
\* no request sent.
C14_LLMFailureIsolated ==
    /\ (pc = "waiting") =>
           /\ domain = classify_domain(text)
           /\ arg = domain
           /\ block = generate_recommendations(domain, text)
           /\ ~KeyMissing(api_key)
           /\ ai = NoAI
    /\ (pc = "analysed") =>
        /\ domain = classify_domain(text)
        /\ arg = domain
        /\ block = generate_recommendations(domain, text)
        /\ KeyMissing(api_key) =>
               (ai.kind = "LLMNotConfigured" /\ clients = 0 /\ requests = 0)
        /\ (~KeyMissing(api_key) /\ ReplyFailed(reply)) =>
               (ai.kind \in AIExceptions \ {"LLMNotConfigured"})
        /\ (ai.kind \in AIExceptions) => ai.value = <<>>

\* The key is the empty string: the analysis of a P2P problem has ended
\* with LLMNotConfigured and the P2P block is what it was.
C14_Witness ==
    /\ pc = "analysed"
    /\ api_key = ""
    /\ ai.kind = "LLMNotConfigured"
    /\ domain = "P2P"
    /\ block = Block_P2P

\* C17: generate_ai_analysis ends in one of three ways: LLMNotConfigured
\* when the key is unset or empty, before any client is built or request
\* sent; an exception when the request fails or the content is empty or None
\* (RuntimeError for the empty case); otherwise it returns the non-empty
\* string that is the content stripped.  It never returns an empty string.
C17_ThreeOutcomes ==
    (pc = "analysed") =>
        /\ ai.kind \in AIExceptions \cup {"returned"}
        /\ KeyMissing(api_key) <=> (ai.kind = "LLMNotConfigured")
        /\ (ai.kind = "LLMNotConfigured") => (clients = 0 /\ requests = 0)
        /\ (ai.kind # "LLMNotConfigured") => (clients = 1 /\ requests = 1)
        /\ (~KeyMissing(api_key) /\ ReplyFailed(reply)) => ai.kind \in AIExceptions
        /\ (reply.kind \in {"nomessage", "nocontent"}
               \/ (reply.kind = "content" /\ reply.content = <<>>))
               => ai.kind = "RuntimeError"
        /\ (ai.kind = "returned") =>
               (ai.value = strip(reply.content) /\ ai.value # <<>>)

-----------------------------------------------------------------------------
(* The application: app.py *)

\* A run of the script has ended and its output is on the page.
Ran == ui.at = "end"

\* C15: an outbound LLM or web-search call is issued only after
\* classify_domain and generate_recommendations have returned for the
\* problem statement.
C15_NetworkAfterCore ==
    (requests > 0 \/ searches > 0) => (domain # NoLabel /\ block # NoBlock)

\* C19: missing credentials degrade without a network call and without an
\* exception: without an OpenAI client ask_gpt returns the fixed warning
\* and no completion request is sent; without a Tavily client no search is
\* made, the context passed is the sentence "No external search results
\* were available." and the sources are empty.
C19_MissingCredentials ==
    /\ (client = None) => (requests = 0 /\ ui.at # "asking")
    /\ (tavily_client = None) => (searches = 0 /\ ui.at # "searching")
    /\ (Ran /\ client = None) =>
           /\ ui.shown.sent = 0
           /\ ui.shown.answer \in
                  {NoAnswer, [kind |-> "warning", value |-> WarningText, sent |-> 0]}
           /\ ui.shown.raised \in {"none", "SearchError"}
           /\ (EntersSpinner(ui, tavily_client, client) /\ ui.shown.raised = "none") =>
                  (ui.shown.answer.kind = "warning" /\ ui.shown.rendered)
    /\ (Ran /\ tavily_client = None) =>
           /\ ui.shown.searched = 0
           /\ ui.shown.sources = <<>>
           /\ ui.shown.raised # "SearchError"
           /\ (ui.mode = "research" /\ ui.shown.question # NoQuestion) =>
                  ui.shown.context = NoResultsContext

\* Neither key is set and a question was asked in research mode: the
\* warning is rendered with no source.
C19_Witness ==
    /\ client = None
    /\ tavily_client = None
    /\ ui.mode = "research"
    /\ ui.at = "end"
    /\ ui.fields = << <<120>> >>
    /\ ui.shown.rendered
    /\ ui.shown.answer.kind = "warning"
    /\ ui.shown.context = NoResultsContext

\* A text that is empty once its whitespace is stripped.
IsBlankText(s) == \A i \in 1..Len(s) : IsSpace(s[i])

\* The inputs each button handler requires: all of them need their text
\* area; the SOP builder needs the process name and the steps, not the
\* context.
RequiredFields ==
    IF ui.mode = "sop" THEN {ui.fields[1], ui.fields[3]} ELSE {ui.fields[1]}

ButtonModes == {"finance", "sop", "automation", "sap"}

\* C20: in the four button handlers an LLM request is issued only when the
\* button is pressed and every required input is non-blank after stripping;
\* with the button pressed and a required input blank the handler warns and
\* returns: no request, no answer rendered.
C20_ButtonGuard ==
    (ui.mode \in ButtonModes) =>
        /\ (ui.shown.sent > 0) =>
               (ui.pressed /\ \A s \in RequiredFields : ~IsBlankText(s))
        /\ (~ui.pressed) => ui.shown = Quiet
        /\ (ui.pressed /\ \E s \in RequiredFields : IsBlankText(s)) =>
               /\ ui.shown.warned
               /\ ui.shown.sent = 0
               /\ ~ui.shown.rendered
               /\ ui.shown.answer = NoAnswer
        /\ (ui.pressed /\ \A s \in RequiredFields : ~IsBlankText(s)) =>
               /\ ~ui.shown.warned
               /\ (client # None) => ui.shown.sent = 1

\* "Generate SOP" was pressed with a process name and whitespace for steps:
\* the handler warned and asked nothing.
C20_Witness ==
    /\ ui.mode = "sop"
    /\ ui.pressed
    /\ client # None
    /\ ui.fields[1] = <<120>>
    /\ ui.fields[3] = <<32>>
    /\ ui.shown.warned
    /\ requests = 0

-----------------------------------------------------------------------------
(* Concurrent use of the core *)

\* C16: under any interleaving of the statements of concurrent calls, each
\* call returns what it returns when run alone, and a call leaves the frame
\* of every other call as it was: the argument and the lowered text a call
\* works on are its own.
C16_ConcurrentCalls ==
    \A c \in Callers :
        /\ (frames[c].at \notin {"idle", "c6"}) =>
               frames[c].local = AsciiLowerStr(frames[c].input)
        /\ (frames[c].at \in {"g", "done"}) =>
               frames[c].label = classify_domain(frames[c].input)
        /\ (frames[c].at = "done") =>
               frames[c].ret =
                   generate_recommendations(classify_domain(frames[c].input),
                                            frames[c].input)

\* Two calls with different inputs have run interleaved and each returned
\* its own label and block.
C16_Witness ==
    /\ frames["A"].at = "done"
    /\ frames["B"].at = "c12"
    /\ frames["A"].input = upper(KW_close)
    /\ frames["B"].input = KW_procure
    /\ frames["A"].label = "R2R"
    /\ frames["A"].ret = Block_R2R

=============================================================================
